---- MODULE Spec2Model ----
(***************************************************************************)
(* Country catalog refresh service (src/main.py, src/service.py,           *)
(* src/schema.py, src/db.py): the refresh pipeline, the delete operation   *)
(* and the SQLAlchemy session they write through.                          *)
(*                                                                         *)
(* Values.  Python's None is <<>> and a present value v is <<v>>, so that   *)
(* dict.get(key) of a missing key and of a JSON null are both None.         *)
(* A string that is lower-cased is a sequence of code points; other        *)
(* strings are TLA+ strings.  A float is the exact ratio [num, den].       *)
(***************************************************************************)
EXTENDS Integers, Sequences, FiniteSets, TLC

\* ------------------------------------------------------------------ bounds

\* Longest country payload a fetch returns.
MaxRecords == 2
\* Number of refresh runs that reach datetime.now (the clock's last value).
MaxClock == 2

\* Largest catalog the ranking is followed on.
MaxRows == 8

\* ------------------------------------------------------------ Python values

None == <<>>
Some(v) == <<v>>
Val(o) == o[1]

\* random.randint(1000, 2000): both ends included.
MultiplierLo == 1000
MultiplierHi == 2000
\* The draws the model follows: the two ends of the range.
Multipliers == {MultiplierLo, MultiplierHi}

\* Number of rows the summary ranks.
TopN == 5

\* --------------------------------------------------------------- strings

\* str.lower() of Python on one code point (ASCII and Latin-1 letters).
PyLowerChar(ch) ==
    IF (ch >= 65 /\ ch <= 90) \/ (ch >= 192 /\ ch <= 222 /\ ch # 215)
    THEN ch + 32 ELSE ch

\* lower() of SQLite folds the 26 ASCII letters and nothing else.
SqliteLowerChar(ch) == IF ch >= 65 /\ ch <= 90 THEN ch + 32 ELSE ch

\* name.lower()
PyLower(s) == [i \in 1..Len(s) |-> PyLowerChar(s[i])]

SqliteLower(s) == [i \in 1..Len(s) |-> SqliteLowerChar(s[i])]

\* The two engines db.py builds a URL for.
Dialects == {"sqlite", "mysql"}

\* func.lower(Country.name) == name.lower(), evaluated by the engine on a
\* stored name: SQLite compares lower(name) with the parameter byte for byte;
\* MySQL lower-cases the full alphabet and compares under its
\* case-insensitive default collation.
NameMatches(d, stored, name) ==
    IF d = "sqlite" THEN SqliteLower(stored) = PyLower(name)
    ELSE PyLower(stored) = PyLower(PyLower(name))

\* unique=True on Country.name: two names collide in the unique index when
\* they are equal byte for byte (SQLite) or equal ignoring case (MySQL).
UniqueCollide(d, a, b) ==
    IF d = "sqlite" THEN a = b ELSE PyLower(a) = PyLower(b)

\* Names of the payloads: "France", "france", "Foo", "\u00c5land" (A with ring, code
\* point 197) and the empty string.
N_France == <<70, 114, 97, 110, 99, 101>>
N_france == <<102, 114, 97, 110, 99, 101>>
N_Foo == <<70, 111, 111>>
N_Aland == <<197, 108, 97, 110, 100>>
N_Empty == << >>


\* ------------------------------------------------------ JSON payloads

\* One item of the countries payload that is a JSON object; a key that is
\* missing and a key that is null both read as None through c.get.
Dict(name, capital, region, population, flag, currencies) ==
    [kind |-> "dict", name |-> name, capital |-> capital, region |-> region,
     population |-> population, flag |-> flag, currencies |-> currencies]

\* An item that is no JSON object (a string, a number, null): c.get raises.
NotADict == [kind |-> "other"]

\* A currency descriptor {"code": ...}.
Cur(code) == Some([code |-> code])

Codes == {"EUR", "XYZ", "ABC"}

Rat(n, d) == [num |-> n, den |-> d]

\* Three of the items: two spellings of one country, and another country.
R_France ==
    Dict(Some(N_France), Some("Paris"), Some("Europe"), Some(100), Some("fr.svg"),
         Some(<<Cur(Some("EUR")), Cur(Some("XYZ"))>>))
R_france == Dict(Some(N_france), None, Some("EU"), None, None, Some(<< >>))
R_Foo ==
    Dict(Some(N_Foo), None, Some("Nowhere"), Some(100), None, Some(<<Cur(Some("XYZ"))>>))

\* The items the country source may return.
Records ==
    { R_France, R_france, R_Foo,
      Dict(Some(N_Foo), Some("Bar"), None, Some(7), Some("foo.svg"), None),
      Dict(Some(N_Aland), Some("Mariehamn"), Some("Europe"), Some(3), None,
           Some(<<Cur(None), Cur(Some("EUR"))>>)),
      Dict(None, Some("Ghost"), None, Some(1), None, Some(<<Cur(Some("EUR"))>>)),
      Dict(Some(N_Empty), None, None, Some(2), None, None),
      NotADict }

RECURSIVE SeqsUpTo(_, _)
SeqsUpTo(S, n) ==
    IF n = 0 THEN {<< >>}
    ELSE LET shorter == SeqsUpTo(S, n - 1)
         IN shorter \cup {Append(s, x) : s \in {t \in shorter : Len(t) = n - 1}, x \in S}

\* r.json() of the countries response.
CountryPayloads == SeqsUpTo(Records, MaxRecords)

\* The value under "rates": a mapping code -> rate (None: the code is not a
\* key), or a JSON value that is no mapping.
RateMap(eur, xyz) ==
    [kind |-> "map", m |-> [c \in Codes |-> IF c = "EUR" THEN eur
                                           ELSE IF c = "XYZ" THEN xyz ELSE None]]

NotAMap == [kind |-> "list"]

\* r.json() of the rates response: no JSON object at all, or an object whose
\* "rates" key is missing (None) or holds a value.
RatePayloads ==
    { [kind |-> "other"],
      [kind |-> "dict", rates |-> None],
      [kind |-> "dict", rates |-> Some(RateMap(Some(Rat(1, 2)), Some(Rat(2, 1))))],
      [kind |-> "dict", rates |-> Some(RateMap(Some(Rat(0, 1)), None))],
      [kind |-> "dict", rates |-> Some(NotAMap)] }

\* ------------------------------------------------------ derived fields

\* Variant: `name is None` - the empty string is a name.
NullName(o) == o = None

\* `not name` of Python: None and the empty string are falsy.
FalsyName(o) == o = None \/ Val(o) = << >>

\* `not currency_code`
FalsyCode(o) == o = None \/ Val(o) = ""

\* Variant: the rate multiplies instead of dividing.
EstimatedGdpTimesRate(population, multiplier, rate) ==
    IF rate.num = 0 THEN None
    ELSE Some([num |-> population * multiplier * rate.num, den |-> rate.den])

\* population * multiplier / float(exchange_rate); None when the division
\* raises (ZeroDivisionError is caught at main.py:122).
EstimatedGdp(population, multiplier, rate) ==
    IF rate.num = 0 THEN None
    ELSE Some(Rat(population * multiplier * rate.den, rate.num))

\* rates.get(currency_code): [raised |-> TRUE] when rates has no .get.
RatesGet(rates, code) ==
    IF rates.kind # "map" THEN [raised |-> TRUE]
    ELSE [raised |-> FALSE, value |-> IF code \in Codes THEN rates.m[code] ELSE None]

\* c.get("currencies") or []
CurrenciesOf(c) == IF c.currencies = None THEN << >> ELSE Val(c.currencies)

\* Variant: the last listed currency is taken.
LastCurrency(currencies) ==
    IF currencies[Len(currencies)] = None THEN [code |-> None]
    ELSE Val(currencies[Len(currencies)])

\* currencies[0] or {}
FirstCurrency(currencies) ==
    IF currencies[1] = None THEN [code |-> None] ELSE Val(currencies[1])

\* The currency block of the loop body: the three derived fields of a named
\* record, or raised.
Derived(c, rates, multiplier) ==
    LET population == IF c.population = None THEN 0 ELSE Val(c.population)
        currencies == CurrenciesOf(c)
    IN IF Len(currencies) = 0
       THEN [raised |-> FALSE, currency_code |-> None, exchange_rate |-> None,
             estimated_gdp |-> Some(Rat(0, 1))]
       ELSE LET currency_code == FirstCurrency(currencies).code
            IN IF FalsyCode(currency_code)
               THEN [raised |-> FALSE, currency_code |-> currency_code,
                     exchange_rate |-> None, estimated_gdp |-> Some(Rat(0, 1))]
               ELSE LET got == RatesGet(rates, Val(currency_code))
                    IN IF got.raised THEN [raised |-> TRUE]
                       ELSE [raised |-> FALSE, currency_code |-> currency_code,
                             exchange_rate |-> got.value,
                             estimated_gdp |->
                                 IF got.value = None THEN None
                                 ELSE EstimatedGdp(population, multiplier, Val(got.value))]

\* The field values one named record gives a Country row, stamped with now.
CountryFields(c, d, now) ==
    [name |-> Val(c.name), capital |-> c.capital, region |-> c.region,
     population |-> IF c.population = None THEN 0 ELSE Val(c.population),
     currency_code |-> d.currency_code, exchange_rate |-> d.exchange_rate,
     estimated_gdp |-> d.estimated_gdp, flag_url |-> c.flag,
     last_refreshed_at |-> now]


\* ------------------------------------------------------------- state

VARIABLES
    dialect,      \* the engine behind DATABASE_URL (db.py)
    threads,      \* the request threads that serve handlers
    countries,    \* committed rows of table countries
    meta,         \* committed rows of table meta
    artifact,     \* cache/summary.png: None, or what is drawn on it
    clock,        \* the wall clock datetime.now reads
    run           \* per thread: the handler's position, locals, session, response

vars == <<dialect, threads, countries, meta, artifact, clock, run>>

Threads == {1, 2}

MetaKey == "last_refreshed_at"

\* now.isoformat()
IsoFormat(t) == <<"iso", t>>

\* A session with nothing pending: no added object, no modified object, no
\* Meta write, and no transaction begun (snap: the tables as the
\* transaction's first SELECT found them, kept where reads repeat).
EmptySession == [new |-> << >>, dirty |-> {}, meta_op |-> None, snap |-> None]

\* A thread serving nothing.  The fields are the handler's locals
\* (ok_c, countries_data, ok_r, rates_data, i, processed_count, now, e), its
\* session and
\* its response; the locals of a refresh that returned 200 stay until the
\* thread's next request, and so do the fetch results of one that returned
\* 503.  pre, repeat and prev_rates are history: the
\* persisted state the refresh started from (kept until it returns 200), and
\* whether this refresh was given the inputs of the successful refresh that
\* directly preceded it on the thread.
Idle ==
    [pc |-> "idle", ok_c |-> None, countries_data |-> None,
     ok_r |-> None, rates_data |-> None, i |-> 0,
     processed_count |-> 0, now |-> 0, e |-> None, session |-> EmptySession,
     pre |-> None, repeat |-> FALSE, prev_rates |-> None, resp |-> None]

Init ==
    /\ dialect \in Dialects
    /\ threads = {1}
    /\ countries = {}
    /\ meta = {}
    /\ artifact = None
    /\ clock = 0
    /\ run = [p \in Threads |-> Idle]

\* The persisted state a handler starts from.
Snapshot == [countries |-> countries, meta |-> meta, artifact |-> artifact]

\* Handlers run one at a time on a thread; the threads of `threads` overlap.
CanStart(p) == p \in threads /\ run[p].pc = "idle"

\* A refresh is followed while the clock has a value left for its now.
CanRefresh(p) == CanStart(p) /\ clock < MaxClock

\* JSONResponse(status_code=503, ...) of refresh_countries.
Unavailable(details) == [op |-> "refresh", status |-> 503, details |-> details]

\* The thread's previous request was a refresh that returned 200.
Succeeded(r) == r.resp # None /\ Val(r.resp).op = "refresh" /\ Val(r.resp).status = 200

\* Variant: the except branch rolls back and lets the handler report success.
RolledBackSilently(r, e) ==
    [Idle EXCEPT !.pre = r.pre, !.e = Some(e),
                 !.resp = Some([op |-> "refresh", status |-> 200,
                                processed |-> r.processed_count,
                                last_refreshed_at |-> <<"iso", r.now>>])]

\* Variant: the except branch rolls back and falls through to the image block.
RolledBackThenProjects(r, e) ==
    [r EXCEPT !.pc = "project", !.e = Some(e), !.session = EmptySession]

\* The except branch of the transaction, entered with exception e:
\* db.rollback() and the 500 response.
RolledBack(r, e) ==
    [Idle EXCEPT !.pre = r.pre, !.e = Some(e),
                 !.resp = Some([op |-> "refresh", status |-> 500])]

\* Return of a 503 response.
Aborted(r, details) ==
    [Idle EXCEPT !.ok_c = r.ok_c, !.ok_r = r.ok_r, !.rates_data = r.rates_data,
                 !.pre = r.pre, !.resp = Some(Unavailable(details))]

\* ---------------------------------------------------- refresh: fetching

\* service.fetch_countries() returned (False, ...).
FetchCountriesFail(p) ==
    /\ CanRefresh(p)
    /\ run' = [run EXCEPT ![p] =
                 Aborted([Idle EXCEPT !.ok_c = Some(FALSE), !.pre = Some(Snapshot)],
                         "Could not fetch data from Countries API")]
    /\ UNCHANGED <<dialect, threads, countries, meta, artifact, clock>>

\* service.fetch_countries() returned (True, payload), for a payload of
\* payloads.
FetchedCountries(p, payloads) ==
    /\ CanRefresh(p)
    /\ \E payload \in payloads :
         run' = [run EXCEPT ![p] =
                   [Idle EXCEPT !.pc = "fetch_rates", !.ok_c = Some(TRUE),
                                !.countries_data = Some(payload),
                                !.pre = Some(Snapshot),
                                !.repeat = (Succeeded(run[p])
                                             /\ run[p].countries_data = Some(payload)),
                                !.prev_rates = run[p].rates_data]]
    /\ UNCHANGED <<dialect, threads, countries, meta, artifact, clock>>

\* service.fetch_countries() returned (True, payload).
FetchCountriesOk(p) == FetchedCountries(p, CountryPayloads)

\* service.fetch_exchange_rates() returned (False, ...).
FetchRatesFail(p) ==
    /\ p \in threads /\ run[p].pc = "fetch_rates"
    /\ run' = [run EXCEPT ![p] =
                 Aborted([run[p] EXCEPT !.ok_r = Some(FALSE)],
                         "Could not fetch data from Exchange Rates API")]
    /\ UNCHANGED <<dialect, threads, countries, meta, artifact, clock>>

\* service.fetch_exchange_rates() returned (True, payload), for a payload of
\* payloads.
FetchedRates(p, payloads) ==
    /\ p \in threads /\ run[p].pc = "fetch_rates"
    /\ \E payload \in payloads :
         run' = [run EXCEPT ![p].pc = "validate", ![p].ok_r = Some(TRUE),
                            ![p].rates_data = Some(payload),
                            ![p].repeat = (run[p].repeat /\ run[p].prev_rates = Some(payload)),
                            ![p].prev_rates = None]
    /\ UNCHANGED <<dialect, threads, countries, meta, artifact, clock>>

\* service.fetch_exchange_rates() returned (True, payload).
FetchRatesOk(p) == FetchedRates(p, RatePayloads)

\* Variant: rates_data.get("rates", {}) - a missing field reads as an empty mapping.
RatesOfDefaulted(rates_data) ==
    IF rates_data.kind = "dict" /\ rates_data.rates # None THEN rates_data.rates
    ELSE Some(RateMap(None, None))

\* rates_data.get("rates") if isinstance(rates_data, dict) else None
RatesOf(rates_data) == IF rates_data.kind = "dict" THEN rates_data.rates ELSE None

\* The structure check, then processed_count = 0 and now = datetime.now().
Validate(p) ==
    /\ p \in threads /\ run[p].pc = "validate"
    /\ IF RatesOf(Val(run[p].rates_data)) = None
       THEN /\ run' = [run EXCEPT ![p] = Aborted(run[p], "Exchange rates payload invalid")]
            /\ UNCHANGED clock
       ELSE /\ clock' = clock + 1
            /\ run' = [run EXCEPT ![p].pc = "loop", ![p].i = 0,
                                  ![p].processed_count = 0, ![p].now = clock + 1]
    /\ UNCHANGED <<dialect, threads, countries, meta, artifact>>


\* ---------------------------------------------- refresh: the transaction

\* db.query(Country).filter(func.lower(Country.name) == name.lower()): the
\* SELECT reads the table; objects added to the session are not flushed
\* before it (autoflush=False) and so are not among its rows.
QueryByName(name) == {row \in countries : NameMatches(dialect, row.name, name)}

\* The tables a SELECT of the session reads.  The session's transaction
\* begins with its first statement; MySQL (InnoDB, REPEATABLE READ) answers
\* every SELECT of the transaction from the tables as the first one found
\* them; SQLite under pysqlite begins no transaction before the flush, and
\* each SELECT reads the tables as they are.
Seen(session) ==
    IF dialect = "mysql" /\ session.snap # None THEN Val(session.snap)
    ELSE [countries |-> countries, meta |-> meta]

\* The session after a SELECT.
Began(session) ==
    IF dialect = "mysql" /\ session.snap = None
    THEN [session EXCEPT !.snap = Some([countries |-> countries, meta |-> meta])]
    ELSE session

\* The query of the loop body, run in the session.
QueryInSession(session, name) ==
    {row \in Seen(session).countries : NameMatches(dialect, row.name, name)}

\* Variant: the assignment of last_refreshed_at is missing.
OverwriteUnstamped(existing, f) ==
    [f EXCEPT !.name = existing.name, !.last_refreshed_at = existing.last_refreshed_at]

\* The attribute assignments on `existing` (its name is not assigned).
Overwrite(existing, f) == [f EXCEPT !.name = existing.name]

\* The session after the assignments on `existing`: the object is dirty; it
\* keeps the values it was loaded with and holds the latest values given to
\* it.  A row the session has loaded before is the same object (the rows
\* are told apart by name here: no handler changes a name).
MarkDirty(session, existing, f) ==
    LET prior == {d \in session.dirty : d.loaded.name = existing.name}
        loaded == IF prior = {} THEN existing ELSE (CHOOSE d \in prior : TRUE).loaded
    IN [session EXCEPT !.dirty =
          (session.dirty \ prior) \cup {[loaded |-> loaded, values |-> Overwrite(loaded, f)]}]

\* db.add(new)
AddNew(session, f) == [session EXCEPT !.new = Append(session.new, f)]

\* One pass of the loop body over countries_data[i].
Upsert(p) ==
    LET r == run[p]
        data == Val(r.countries_data)
        rates == Val(RatesOf(Val(r.rates_data)))
    IN /\ p \in threads /\ r.pc = "loop" /\ r.i < Len(data)
       /\ LET c == data[r.i + 1]
          IN IF c.kind # "dict"
             THEN run' = [run EXCEPT ![p] = RolledBack(r, "AttributeError")]
             ELSE IF FalsyName(c.name)
             THEN run' = [run EXCEPT ![p].i = r.i + 1]
             ELSE \E multiplier \in Multipliers :
                    LET d == Derived(c, rates, multiplier)
                    IN IF d.raised
                       THEN run' = [run EXCEPT ![p] = RolledBack(r, "AttributeError")]
                       ELSE LET f == CountryFields(c, d, r.now)
                                found == QueryInSession(r.session, Val(c.name))
                            IN IF found = {}
                                  THEN run' = [run EXCEPT
                                          ![p].session = AddNew(Began(r.session), f),
                                          ![p].processed_count = r.processed_count + 1,
                                          ![p].i = r.i + 1]
                                  ELSE \E existing \in found :
                                         run' = [run EXCEPT
                                           ![p].session =
                                              MarkDirty(Began(r.session), existing, f),
                                           ![p].processed_count = r.processed_count + 1,
                                           ![p].i = r.i + 1]
       /\ UNCHANGED <<dialect, threads, countries, meta, artifact, clock>>

\* After the loop: the Meta row is looked up, then assigned or added.
WriteMeta(p) ==
    LET r == run[p]
        found == {m \in Seen(r.session).meta : m.key = MetaKey}
    IN /\ p \in threads /\ r.pc = "loop" /\ r.i = Len(Val(r.countries_data))
       /\ run' = [run EXCEPT ![p].pc = "commit",
                    ![p].session =
                       [Began(r.session) EXCEPT !.meta_op =
                          Some([op |-> IF found = {} THEN "insert" ELSE "update",
                                value |-> IsoFormat(r.now)])]]
       /\ UNCHANGED <<dialect, threads, countries, meta, artifact, clock>>

\* The unique index on countries.name and the primary key of meta accept
\* the session's INSERTs, and each UPDATE finds its row.
ConstraintsHold(session) ==
    /\ \A d \in session.dirty : \E row \in countries : row.name = d.loaded.name
    /\ \A i, j \in 1..Len(session.new) :
         i < j => ~UniqueCollide(dialect, session.new[i].name, session.new[j].name)
    /\ \A i \in 1..Len(session.new) : \A row \in countries :
         ~UniqueCollide(dialect, session.new[i].name, row.name)
    /\ (session.meta_op # None /\ Val(session.meta_op).op = "insert")
         => \A m \in meta : m.key # MetaKey

\* Variant: the run's rows replace the table.
FlushedReplacing(session) ==
    {d.values : d \in session.dirty} \cup {session.new[i] : i \in 1..Len(session.new)}

\* The row after the UPDATE the unit of work emits for a dirty object: the
\* statement sets the columns whose value differs from the loaded one and
\* leaves the others as the table has them.
Merged(row, d) ==
    [col \in DOMAIN row |->
        IF d.values[col] # d.loaded[col] THEN d.values[col] ELSE row[col]]

\* Table countries after the session's UPDATEs and INSERTs.
FlushedCountries(session) ==
    {IF \E d \in session.dirty : d.loaded.name = row.name
     THEN Merged(row, CHOOSE d \in session.dirty : d.loaded.name = row.name)
     ELSE row : row \in countries}
      \cup {session.new[i] : i \in 1..Len(session.new)}

\* Table meta after the session's write of the key.
FlushedMeta(session) ==
    IF session.meta_op = None THEN meta
    ELSE {m \in meta : m.key # MetaKey}
           \cup {[key |-> MetaKey, value |-> Val(session.meta_op).value]}

\* db.commit() succeeds.
Commit(p) ==
    LET r == run[p]
    IN /\ p \in threads /\ r.pc = "commit"
       /\ ConstraintsHold(r.session)
       /\ countries' = FlushedCountries(r.session)
       /\ meta' = FlushedMeta(r.session)
       /\ run' = [run EXCEPT ![p].pc = "project", ![p].session = EmptySession]
       /\ UNCHANGED <<dialect, threads, artifact, clock>>

\* db.commit() raises IntegrityError: a constraint rejects the flush.
CommitRejected(p) ==
    LET r == run[p]
    IN /\ p \in threads /\ r.pc = "commit"
       /\ ~ConstraintsHold(r.session)
       /\ run' = [run EXCEPT ![p] = RolledBack(r, "IntegrityError")]
       /\ UNCHANGED <<dialect, threads, countries, meta, artifact, clock>>

\* A statement of the transaction (a query, the flush, the COMMIT) raises
\* because the engine fails.
DbError(p) ==
    LET r == run[p]
    IN /\ p \in threads /\ r.pc \in {"loop", "commit"}
       /\ run' = [run EXCEPT ![p] = RolledBack(r, "OperationalError")]
       /\ UNCHANGED <<dialect, threads, countries, meta, artifact, clock>>


\* ------------------------------------------------ refresh: the summary

\* Variant: the comparison of an ascending order.
More(a, b) == a.num * b.den > b.num * a.den

\* a < b for two ratios with positive denominators.
Less(a, b) == a.num * b.den < b.num * a.den

\* f"{x:.2f}": x in hundredths, rounded to the nearest, ties to even.
Format2f(x) ==
    LET q == (x.num * 100) \div x.den
        rem == (x.num * 100) % x.den
    IN IF 2 * rem > x.den \/ (2 * rem = x.den /\ q % 2 = 1) THEN q + 1 ELSE q

\* filter(Country.estimated_gdp != None)
Ranked(rows) == {row \in rows : row.estimated_gdp # None}

\* order_by(Country.estimated_gdp.desc()).limit(n).all(): every order the
\* engine may return (rows of equal estimated_gdp come in any order).
RECURSIVE TopRows(_, _)
TopRows(rows, n) ==
    IF n = 0 \/ rows = {} THEN {<< >>}
    ELSE LET best == {row \in rows : \A o \in rows :
                         ~Less(Val(row.estimated_gdp), Val(o.estimated_gdp))}
         IN UNION {{<<row>> \o rest : rest \in TopRows(rows \ {row}, n - 1)} : row \in best}

\* What the drawing shows: the count, the timestamp line and the ranked lines.
Drawing(total, iso_ts, top) ==
    [total |-> total, last_refresh |-> iso_ts,
     lines |-> [k \in 1..Len(top) |->
                  [name |-> top[k].name, gdp |-> Format2f(Val(top[k].estimated_gdp))]]]

\* The 200 response of refresh_countries.
Refreshed(r) ==
    [op |-> "refresh", status |-> 200, processed |-> r.processed_count,
     last_refreshed_at |-> IsoFormat(r.now)]

\* The image block runs to im.save(img_path); then the response.
Project(p) ==
    LET r == run[p]
    IN /\ p \in threads /\ r.pc = "project"
       /\ \E top \in TopRows(Ranked(countries), TopN) :
            artifact' = Some(Drawing(Cardinality(countries), Some(IsoFormat(r.now)), top))
       /\ run' = [run EXCEPT ![p].pc = "idle", ![p].pre = None,
                             ![p].resp = Some(Refreshed(r))]
       /\ UNCHANGED <<dialect, threads, countries, meta, clock>>

\* Variant: the image block has no except clause; the exception reaches the
\* application's handler for Exception, which answers 500.
ProjectRaises(p) ==
    LET r == run[p]
    IN /\ p \in threads /\ r.pc = "project"
       /\ run' = [run EXCEPT ![p].pc = "idle", ![p].pre = None,
                             ![p].resp = Some([op |-> "refresh", status |-> 500])]
       /\ UNCHANGED <<dialect, threads, countries, meta, artifact, clock>>

\* The image block raises (PIL missing, cache not writable): the except
\* clause passes; then the response.
ProjectFails(p) ==
    LET r == run[p]
    IN /\ p \in threads /\ r.pc = "project"
       /\ run' = [run EXCEPT ![p].pc = "idle", ![p].pre = None,
                             ![p].resp = Some(Refreshed(r))]
       /\ UNCHANGED <<dialect, threads, countries, meta, artifact, clock>>

\* ------------------------------------------------------------ delete

\* The names a DELETE /countries/{name} request carries.
PathNames == {N_France, N_france, N_Foo, N_Aland}

\* delete_country(name)
DeleteCountry(p, name) ==
    LET found == QueryByName(name)
    IN /\ CanStart(p)
       /\ IF found = {}
          THEN /\ run' = [run EXCEPT ![p] =
                            [Idle EXCEPT !.resp = Some([op |-> "delete", status |-> 404,
                                                        name |-> name])]]
               /\ UNCHANGED countries
          ELSE \E c \in found :
                 /\ countries' = countries \ {c}
                 /\ run' = [run EXCEPT ![p] =
                              [Idle EXCEPT !.resp = Some([op |-> "delete", status |-> 200,
                                                          name |-> name])]]
       /\ UNCHANGED <<dialect, threads, meta, artifact, clock>>

\* ------------------------------------------------------- get_image

\* Variant: the file is never found.
NeverExists(file) == FALSE

\* path.exists()
Exists(file) == file # None

\* meta.value if meta else None
MetaValue ==
    IF \E m \in meta : m.key = MetaKey
    THEN Some((CHOOSE m \in meta : m.key = MetaKey).value) ELSE None

\* The answer of a GET endpoint; req is the path of the request that was
\* routed to it, None when the endpoint is called as a function.
Answer(endpoint, req, status, body) ==
    [op |-> endpoint, req |-> req, status |-> status, body |-> body]

\* get_image returns a FileResponse: of the file that exists, or of the one
\* it draws from the tables and saves.
ImageServed(p, req) ==
    IF Exists(artifact)
    THEN /\ run' = [run EXCEPT ![p] =
                      [Idle EXCEPT !.resp = Some(Answer("get_image", req, 200, artifact))]]
         /\ UNCHANGED artifact
    ELSE \E top \in TopRows(Ranked(countries), TopN) :
           LET drawn == Some(Drawing(Cardinality(countries), MetaValue, top))
           IN /\ artifact' = drawn
              /\ run' = [run EXCEPT ![p] =
                           [Idle EXCEPT !.resp = Some(Answer("get_image", req, 200, drawn))]]

\* get_image finds no file and its drawing block raises: the 404 response.
ImageNotFound(p, req) ==
    /\ ~Exists(artifact)
    /\ run' = [run EXCEPT ![p] =
                 [Idle EXCEPT !.resp = Some(Answer("get_image", req, 404, None))]]
    /\ UNCHANGED artifact

\* get_image(db) runs to a FileResponse.
GetImage(p) ==
    /\ CanStart(p)
    /\ ImageServed(p, None)
    /\ UNCHANGED <<dialect, threads, countries, meta, clock>>

\* get_image(db) runs to its except clause.
GetImageFails(p) ==
    /\ CanStart(p)
    /\ ImageNotFound(p, None)
    /\ UNCHANGED <<dialect, threads, countries, meta, clock>>

\* ------------------------------------------------------------ routing

\* Path segments: "countries", "refresh", "status", "image".
Seg_countries == <<99, 111, 117, 110, 116, 114, 105, 101, 115>>
Seg_refresh == <<114, 101, 102, 114, 101, 115, 104>>
Seg_status == <<115, 116, 97, 116, 117, 115>>
Seg_image == <<105, 109, 97, 103, 101>>

\* A literal segment of a route's path, and the parameter {name}.
Lit(s) == [kind |-> "lit", s |-> s]
Param == [kind |-> "param"]

RouteOf(method, path, endpoint) == [method |-> method, path |-> path, endpoint |-> endpoint]

\* The routes of app, in the order their decorators run.
Routes ==
    << RouteOf("POST", <<Lit(Seg_countries), Lit(Seg_refresh)>>, "refresh_countries"),
       RouteOf("GET", <<Lit(Seg_countries)>>, "list_countries"),
       RouteOf("GET", <<Lit(Seg_countries), Param>>, "get_country"),
       RouteOf("DELETE", <<Lit(Seg_countries), Param>>, "delete_country"),
       RouteOf("GET", <<Lit(Seg_status)>>, "status"),
       RouteOf("GET", <<Lit(Seg_countries), Lit(Seg_image)>>, "get_image") >>

\* The route's path matches the request path: a literal matches itself, the
\* parameter matches any segment.
PathMatches(pattern, path) ==
    /\ Len(pattern) = Len(path)
    /\ \A k \in 1..Len(pattern) : pattern[k].kind = "param" \/ pattern[k].s = path[k]

\* The router takes the first route, in declaration order, that matches the
\* method and the path.
Match(method, path) ==
    LET hits == {k \in 1..Len(Routes) :
                    Routes[k].method = method /\ PathMatches(Routes[k].path, path)}
    IN IF hits = {} THEN None
       ELSE Some(Routes[CHOOSE k \in hits : \A j \in hits : k <= j])

\* The paths of the GET requests that are followed.
GetPaths ==
    { <<Seg_countries, Seg_image>>, <<Seg_countries, N_france>>,
      <<Seg_countries>>, <<Seg_status>> }

\* A GET request for path: the endpoint of the matching route runs.
Get(p, path) ==
    LET endpoint == Val(Match("GET", path)).endpoint
    IN /\ CanStart(p)
       /\ Match("GET", path) # None
       /\ CASE endpoint = "get_image" ->
                 ImageServed(p, Some(path)) \/ ImageNotFound(p, Some(path))
            [] endpoint = "get_country" ->
                 /\ IF QueryByName(path[2]) = {}
                    THEN run' = [run EXCEPT ![p] =
                            [Idle EXCEPT !.resp = Some(Answer(endpoint, Some(path), 404, None))]]
                    ELSE \E c \in QueryByName(path[2]) :
                           run' = [run EXCEPT ![p] =
                             [Idle EXCEPT !.resp = Some(Answer(endpoint, Some(path), 200, Some(c)))]]
                 /\ UNCHANGED artifact
            [] endpoint = "list_countries" ->
                 /\ run' = [run EXCEPT ![p] =
                      [Idle EXCEPT !.resp = Some(Answer(endpoint, Some(path), 200, Some(countries)))]]
                 /\ UNCHANGED artifact
            [] endpoint = "status" ->
                 /\ run' = [run EXCEPT ![p] =
                      [Idle EXCEPT !.resp =
                          Some(Answer(endpoint, Some(path), 200,
                                      Some([total_countries |-> Cardinality(countries),
                                            last_refreshed_at |-> MetaValue])))]]
                 /\ UNCHANGED artifact
       /\ UNCHANGED <<dialect, threads, countries, meta, clock>>

\* ----------------------------------------------------- specification

Next ==
    \E p \in Threads :
       \/ FetchCountriesFail(p)
       \/ FetchCountriesOk(p)
       \/ FetchRatesFail(p)
       \/ FetchRatesOk(p)
       \/ Validate(p)
       \/ Upsert(p)
       \/ WriteMeta(p)
       \/ Commit(p)
       \/ CommitRejected(p)
       \/ DbError(p)
       \/ Project(p)
       \/ ProjectFails(p)
       \/ \E name \in PathNames : DeleteCountry(p, name)
       \/ GetImage(p)
       \/ GetImageFails(p)
       \/ \E path \in GetPaths : Get(p, path)

Spec == Init /\ [][Next]_vars

\* ------------------------------------ specification: concurrent refreshes

\* The country payloads of the refreshes that overlap: one record each.
ConcurrentPayloads == {<<R_France>>, <<R_france>>, <<R_Foo>>}

\* service.fetch_countries() returned (True, payload) to an overlapping refresh.
FetchCountriesOkOverlapping(p) == FetchedCountries(p, ConcurrentPayloads)

\* The rate payloads of the refreshes that overlap: a mapping, and a
\* payload that is no JSON object.
ConcurrentRatePayloads ==
    { [kind |-> "dict", rates |-> Some(RateMap(Some(Rat(1, 2)), Some(Rat(2, 1))))],
      [kind |-> "other"] }

\* service.fetch_exchange_rates() returned (True, payload) to an overlapping refresh.
FetchRatesOkOverlapping(p) == FetchedRates(p, ConcurrentRatePayloads)

\* The row and the Meta row a refresh of [R_France] at time 0 left in the
\* database file.
SeedRow ==
    CountryFields(R_France,
                  Derived(R_France, RateMap(Some(Rat(1, 2)), Some(Rat(2, 1))), MultiplierLo),
                  0)

\* Two request threads, over a new database or over one an earlier refresh
\* has written.
InitConcurrent ==
    /\ dialect \in Dialects
    /\ threads = Threads
    /\ \/ countries = {} /\ meta = {}
       \/ countries = {SeedRow} /\ meta = {[key |-> MetaKey, value |-> IsoFormat(0)]}
    /\ artifact = None
    /\ clock = 0
    /\ run = [p \in Threads |-> Idle]

NextConcurrent ==
    \E p \in Threads :
       \/ FetchCountriesFail(p)
       \/ FetchCountriesOkOverlapping(p)
       \/ FetchRatesFail(p)
       \/ FetchRatesOkOverlapping(p)
       \/ Validate(p)
       \/ Upsert(p)
       \/ WriteMeta(p)
       \/ Commit(p)
       \/ CommitRejected(p)
       \/ DbError(p)
       \/ Project(p)
       \/ ProjectFails(p)

SpecConcurrent == InitConcurrent /\ [][NextConcurrent]_vars

\* ------------------------------------------- specification: the ranking

\* Record k of a country payload of MaxRows records: names "A", "B", ...;
\* record 2 lists no currency (estimate 0), every fourth record from the
\* first has a code without a rate (estimate null), records 3 and 4 get equal
\* estimates, the others distinct ones.
RankRecord(k) ==
    Dict(Some(<<64 + k>>), None, None, Some(IF k \in {3, 4} THEN 5 ELSE k), None,
         IF k = 2 THEN Some(<< >>)
         ELSE IF k % 4 = 1 THEN Some(<<Cur(Some("ABC"))>>)
         ELSE Some(<<Cur(Some("EUR"))>>))

\* The row a refresh at time 1 writes for record k, with EUR at rate 1/2.
RankRow(k) ==
    CountryFields(RankRecord(k),
                  Derived(RankRecord(k), RateMap(Some(Rat(1, 2)), None),
                          IF k \in {3, 4} \/ k % 2 = 1 THEN MultiplierLo ELSE MultiplierHi),
                  1)

\* The service after one refresh of that payload whose image block raised
\* and any number of deletes: any part of the rows, the Meta row, no file.
InitRank ==
    /\ dialect \in Dialects
    /\ threads = {1}
    /\ countries \in SUBSET {RankRow(k) : k \in 1..MaxRows}
    /\ meta = {[key |-> MetaKey, value |-> IsoFormat(1)]}
    /\ artifact = None
    /\ clock = 1
    /\ run = [p \in Threads |-> Idle]

NextRank ==
    \E p \in Threads :
       \/ GetImage(p)
       \/ GetImageFails(p)

SpecRank == InitRank /\ [][NextRank]_vars


\* ------------------------------------------------------------- claims

\* A refresh has returned on thread p and no later request has started.
RefreshReturned(r) == r.pc = "idle" /\ r.resp # None /\ Val(r.resp).op = "refresh"

\* Tables countries and meta are as they were when the handler started.
Untouched(r) == r.pre # None /\ countries = Val(r.pre).countries /\ meta = Val(r.pre).meta

\* The refresh returned 503 with these details and wrote nothing.
AbortedWith(r, details) == r.resp = Some(Unavailable(details)) /\ Untouched(r)

\* The rates payload is no JSON object or has no "rates" field.
NoRatesField(rates_data) == rates_data.kind # "dict" \/ rates_data.rates = None

\* C1: a refresh whose country fetch failed, whose rate fetch failed, or
\* whose rate payload has no rates field returns 503 naming that source, and
\* the Country rows and the Meta value are what they were before the call.
C1_AbortBeforeMutation ==
    \A p \in Threads :
      LET r == run[p]
      IN RefreshReturned(r) =>
           /\ r.ok_c = Some(FALSE)
                => AbortedWith(r, "Could not fetch data from Countries API")
           /\ r.ok_r = Some(FALSE)
                => AbortedWith(r, "Could not fetch data from Exchange Rates API")
           /\ (r.ok_r = Some(TRUE) /\ r.rates_data # None /\ NoRatesField(Val(r.rates_data)))
                => AbortedWith(r, "Exchange rates payload invalid")

\* C1 witness: a refresh of a non-empty catalog has returned 503 because the
\* rate payload had no rates field.
C1_Witness ==
    \E p \in Threads :
      /\ RefreshReturned(run[p])
      /\ run[p].rates_data = Some([kind |-> "dict", rates |-> None])
      /\ Val(run[p].resp).status = 503
      /\ countries # {} /\ meta # {}

\* C2: a refresh whose transactional write raised (in the loop, at the Meta
\* write or at commit) returns the generic 500 and leaves the Country rows
\* and the Meta value as they were before the run; and while the transaction
\* is open none of its rows is in the tables.
C2_Atomicity ==
    \A p \in Threads :
      LET r == run[p]
      IN /\ (r.pc = "idle" /\ r.e # None)
              => r.resp = Some([op |-> "refresh", status |-> 500]) /\ Untouched(r)
         /\ r.pc \in {"loop", "commit"} => Untouched(r)

\* C2 witness: the commit of a run with pending rows was rejected and the
\* non-empty catalog is the one the run started from.
C2_Witness ==
    \E p \in Threads :
      /\ run[p].pc = "idle" /\ run[p].e = Some("IntegrityError")
      /\ Val(run[p].resp).status = 500
      /\ countries # {} /\ countries = Val(run[p].pre).countries


\* The item is a JSON object with a non-empty name.
HasName(c) == c.kind = "dict" /\ c.name # None /\ Val(c.name) # << >>

\* Positions of the named records of a payload.
NamedAt(data) == {k \in 1..Len(data) : HasName(data[k])}

\* Two names are equal under case-insensitive comparison.
SameCountry(a, b) == PyLower(a) = PyLower(b)

\* Position k holds the payload's last word on its country: no later named
\* record has the same name ignoring case.
FinalAt(data, k) ==
    /\ k \in NamedAt(data)
    /\ \A j \in NamedAt(data) :
         j > k => ~SameCountry(Val(data[j].name), Val(data[k].name))

\* The run of r has committed and has not yet returned.
Committed(r) == r.pc = "project"

\* The rows of the catalog that are the country called name.
RowsOf(name) == {row \in countries : SameCountry(row.name, name)}

\* C3: after a successful run that processes a name for which an earlier
\* successful run left a row (the names equal ignoring case), the catalog
\* holds exactly one row for that country, and it carries this run's
\* timestamp and the values of this run's last record for it.
C3_OneRowAcrossRuns ==
    \A p \in Threads :
      LET r == run[p]
      IN Committed(r) =>
           \A k \in 1..Len(Val(r.countries_data)) :
             LET c == Val(r.countries_data)[k]
             IN (/\ FinalAt(Val(r.countries_data), k)
                 /\ \E old \in Val(r.pre).countries : SameCountry(old.name, Val(c.name)))
                  => /\ Cardinality(RowsOf(Val(c.name))) = 1
                     /\ \A row \in RowsOf(Val(c.name)) :
                          /\ row.last_refreshed_at = r.now
                          /\ row.capital = c.capital /\ row.region = c.region
                          /\ row.flag_url = c.flag

\* C4: no two rows of the catalog have names that are equal ignoring case.
C4_NamesUniqueIgnoringCase ==
    \A a, b \in countries : SameCountry(a.name, b.name) => a = b

\* The rows a committed run inserted or changed.
Touched(r) == countries \ Val(r.pre).countries

\* C5: table meta never holds two rows for the key; when a run has
\* committed, the one Meta row holds the ISO string of the run's now
\* (whether or not a row existed before), every row the run inserted or
\* changed is stamped with that now, every named record has such a row, and
\* the 200 response carries the same ISO string.
C5_MetaConsistency ==
    /\ Cardinality({m \in meta : m.key = MetaKey}) <= 1
    /\ \A p \in Threads :
         LET r == run[p]
         IN /\ Committed(r) =>
                 /\ meta = {[key |-> MetaKey, value |-> <<"iso", r.now>>]}
                 /\ \A row \in Touched(r) : row.last_refreshed_at = r.now
                 /\ \A k \in NamedAt(Val(r.countries_data)) :
                      \E row \in RowsOf(Val(Val(r.countries_data)[k].name)) :
                         row.last_refreshed_at = r.now
            /\ (RefreshReturned(r) /\ Val(r.resp).status = 200) =>
                 /\ Val(r.resp).last_refreshed_at = <<"iso", r.now>>
                 /\ meta = {[key |-> MetaKey, value |-> Val(r.resp).last_refreshed_at]}

\* C5 witness: a run over a catalog that already had its Meta row has
\* committed, having changed an existing row and inserted a new one.
C5_Witness ==
    \E p \in Threads :
      /\ Committed(run[p])
      /\ Val(run[p].pre).meta # {} /\ Val(run[p].pre).meta # meta
      /\ \E row \in Touched(run[p]) :
            \E old \in Val(run[p].pre).countries : old.name = row.name
      /\ \E row \in Touched(run[p]) :
            \A old \in Val(run[p].pre).countries : old.name # row.name

\* C6: every refresh whose payloads passed fetch and validation, and whose
\* items are all JSON objects, returns 200 (its commit is not rejected), and
\* the processed count of a 200 response is the number of named records.
C6_ProcessedCount ==
    \A p \in Threads :
      LET r == run[p]
      IN RefreshReturned(r) =>
           /\ r.e # Some("IntegrityError")
           /\ Val(r.resp).status = 200 =>
                Val(r.resp).processed = Cardinality(NamedAt(Val(r.countries_data)))


\* The mapping under "rates" of the run's rate payload.
RatesIn(r) == Val(Val(r.rates_data).rates)

\* The record lists no currency: the list is absent or empty.
NoCurrency(c) == c.currencies = None \/ Val(c.currencies) = << >>

\* The first listed currency has no code.
NoCode(c) ==
    /\ ~NoCurrency(c)
    /\ \/ Val(c.currencies)[1] = None
       \/ Val(Val(c.currencies)[1]).code = None
       \/ Val(Val(c.currencies)[1]).code = Some("")

\* The code of the first listed currency.
FirstCode(c) == Val(Val(Val(c.currencies)[1]).code)

\* x is the number zero.
IsZero(x) == x # None /\ Val(x).num = 0

\* The rows a committed run stamped for the country called name.
Stamped(r, name) == {row \in RowsOf(name) : row.last_refreshed_at = r.now}

\* C7: when a run has committed, the row written for a named record has
\* currency_code = null, exchange_rate = null and estimated_gdp = 0 if the
\* record lists no currency (list absent or empty); exchange_rate = null and
\* estimated_gdp = 0 if its first currency has no code; and that first code,
\* exchange_rate = null and estimated_gdp = null if the first code is not in
\* the rate map.  Currencies after the first change nothing.
C7_NullZeroPolicy ==
    \A p \in Threads :
      LET r == run[p]
      IN Committed(r) =>
           \A k \in 1..Len(Val(r.countries_data)) :
             LET c == Val(r.countries_data)[k]
             IN FinalAt(Val(r.countries_data), k) =>
                  \E row \in Stamped(r, Val(c.name)) :
                    /\ NoCurrency(c) =>
                         /\ row.currency_code = None /\ row.exchange_rate = None
                         /\ IsZero(row.estimated_gdp)
                    /\ NoCode(c) =>
                         row.exchange_rate = None /\ IsZero(row.estimated_gdp)
                    /\ (/\ ~NoCurrency(c) /\ ~NoCode(c)
                        /\ RatesIn(r).kind = "map" /\ RatesIn(r).m[FirstCode(c)] = None)
                         => /\ row.currency_code = Some(FirstCode(c))
                            /\ row.exchange_rate = None /\ row.estimated_gdp = None

\* C7 witness: one committed run wrote a row for a record whose first
\* currency has no code (and whose second has a rate) and a row for a record
\* whose code is not in the rate map.
C7_Witness ==
    \E p \in Threads :
      /\ Committed(run[p])
      /\ \E j, k \in 1..Len(Val(run[p].countries_data)) :
           LET data == Val(run[p].countries_data)
           IN /\ FinalAt(data, j) /\ NoCode(data[j]) /\ Len(Val(data[j].currencies)) = 2
              /\ \E row \in Stamped(run[p], Val(data[j].name)) : IsZero(row.estimated_gdp)
              /\ FinalAt(data, k) /\ ~NoCurrency(data[k]) /\ ~NoCode(data[k])
              /\ RatesIn(run[p]).kind = "map" /\ RatesIn(run[p]).m[FirstCode(data[k])] = None
              /\ \E row \in Stamped(run[p], Val(data[k].name)) : row.estimated_gdp = None

\* population * multiplier / rate <= g, and g <= the same, for a rate > 0.
AtLeast(g, population, multiplier, rate) ==
    population * multiplier * rate.den * g.den <= g.num * rate.num

AtMost(g, population, multiplier, rate) ==
    g.num * rate.num <= population * multiplier * rate.den * g.den

\* The record's population, 0 when it gives none.
PopulationOf(c) == IF c.population = None THEN 0 ELSE Val(c.population)

\* The row stores the rate, and an estimate that is a number within the
\* range the multiplier spans for the record's population.
InRange(row, c, rate) ==
    /\ row.exchange_rate = Some(rate)
    /\ row.estimated_gdp # None
    /\ rate.num # 0
    /\ AtLeast(Val(row.estimated_gdp), PopulationOf(c), 1000, rate)
    /\ AtMost(Val(row.estimated_gdp), PopulationOf(c), 2000, rate)

\* The record's first currency code is in the rate map.
RateOf(r, c) ==
    IF ~NoCurrency(c) /\ ~NoCode(c) /\ RatesIn(r).kind = "map" /\ FirstCode(c) \in Codes
    THEN RatesIn(r).m[FirstCode(c)] ELSE None

\* C8 as claimed: when a run has committed, the row written for a named
\* record whose first currency code has rate r in the rate map stores
\* exchange_rate = r and an estimated_gdp between population*1000/r and
\* population*2000/r.
C8_GdpInRange ==
    \A p \in Threads :
      LET r == run[p]
      IN Committed(r) =>
           \A k \in 1..Len(Val(r.countries_data)) :
             LET c == Val(r.countries_data)[k]
             IN (FinalAt(Val(r.countries_data), k) /\ RateOf(r, c) # None)
                  => \E row \in Stamped(r, Val(c.name)) : InRange(row, c, Val(RateOf(r, c)))

\* C8 amended: the same for a rate r > 0; for the rate 0 the row stores
\* exchange_rate = 0 and estimated_gdp = null.
C8_GdpInRangePositiveRate ==
    \A p \in Threads :
      LET r == run[p]
      IN Committed(r) =>
           \A k \in 1..Len(Val(r.countries_data)) :
             LET c == Val(r.countries_data)[k]
             IN (FinalAt(Val(r.countries_data), k) /\ RateOf(r, c) # None)
                  => \E row \in Stamped(r, Val(c.name)) :
                       IF Val(RateOf(r, c)).num > 0
                       THEN InRange(row, c, Val(RateOf(r, c)))
                       ELSE /\ row.exchange_rate = RateOf(r, c)
                            /\ row.estimated_gdp = None

\* C8 witness: one committed run stored the estimate population*2000/r for
\* one country and population*1000/r for another.
C8_Witness ==
    \E p \in Threads :
      /\ Committed(run[p])
      /\ \E a, b \in Touched(run[p]) :
           /\ a.name = N_Foo /\ a.population = 100
           /\ a.exchange_rate = Some(Rat(2, 1))
           /\ a.estimated_gdp = Some(Rat(100 * 2000, 2))
           /\ b.name = N_France /\ b.exchange_rate = Some(Rat(1, 2))
           /\ b.estimated_gdp = Some(Rat(100 * 1000 * 2, 1))

\* The names of the named records of a payload.
NamesIn(data) == {Val(data[k].name) : k \in NamedAt(data)}

\* C9: a refresh never removes a row, and when it has committed every row it
\* started with whose name matches no named record of its payload (ignoring
\* case) is still there with every field as it was.
C9_UnmatchedRowsUntouched ==
    \A p \in Threads :
      LET r == run[p]
      IN r.pre # None =>
           /\ Cardinality(countries) >= Cardinality(Val(r.pre).countries)
           /\ \A row \in Val(r.pre).countries :
                (r.countries_data = None
                   \/ \A n \in NamesIn(Val(r.countries_data)) : ~SameCountry(row.name, n))
                  => row \in countries

\* C9 witness: a run has committed that changed the catalog and left a row
\* alone that its payload does not name.
C9_Witness ==
    \E p \in Threads :
      /\ Committed(run[p])
      /\ Touched(run[p]) # {}
      /\ \E row \in Val(run[p].pre).countries :
           /\ \A n \in NamesIn(Val(run[p].countries_data)) : ~SameCountry(row.name, n)
           /\ row \in countries
      /\ \E row \in Val(run[p].pre).countries : row \notin countries

\* The fields idempotence is about.
Identity(row) ==
    [name |-> row.name, region |-> row.region, capital |-> row.capital,
     population |-> row.population, currency_code |-> row.currency_code]

\* C10: when a run has committed whose payloads are those of the successful
\* run directly before it, the catalog has as many rows as before it, with
\* the same name, region, capital, population and currency_code on each.
C10_Idempotence ==
    \A p \in Threads :
      LET r == run[p]
      IN (Committed(r) /\ r.repeat) =>
           /\ Cardinality(countries) = Cardinality(Val(r.pre).countries)
           /\ {Identity(row) : row \in countries}
                = {Identity(row) : row \in Val(r.pre).countries}


\* The step ends the image block of thread p's refresh.
LeavesProjection(p) == run[p].pc = "project" /\ run'[p] # run[p]

\* C11: the step that ends the image block of a committed refresh, whether
\* the block drew the summary or raised, returns 200 with the processed count
\* and the run's timestamp and leaves tables countries and meta as the commit
\* left them; the summary file is either left alone or replaced.
C11_ProjectionFailureAbsorbed ==
    [][\A p \in Threads :
         LeavesProjection(p) =>
           /\ run'[p].pc = "idle"
           /\ run'[p].resp = Some([op |-> "refresh", status |-> 200,
                                   processed |-> run[p].processed_count,
                                   last_refreshed_at |-> <<"iso", run[p].now>>])
           /\ countries' = countries /\ meta' = meta
           /\ meta = {[key |-> MetaKey, value |-> <<"iso", run[p].now>>]}]_vars

\* C11 witness: a refresh that wrote rows has returned 200 and there is no
\* summary file: every image block so far has raised.
C11_Witness ==
    \E p \in Threads :
      /\ RefreshReturned(run[p]) /\ Val(run[p].resp).status = 200
      /\ Val(run[p].resp).processed > 0
      /\ artifact = None /\ countries # {} /\ meta # {}

\* The order of the positions of a refresh run.
PcOrder ==
    {<<"idle", "idle">>, <<"idle", "fetch_rates">>,
     <<"fetch_rates", "idle">>, <<"fetch_rates", "validate">>,
     <<"validate", "idle">>, <<"validate", "loop">>,
     <<"loop", "loop">>, <<"loop", "commit">>, <<"loop", "idle">>,
     <<"commit", "project">>, <<"commit", "idle">>,
     <<"project", "idle">>}

\* The step is a step of thread p's refresh before its image block.
RefreshStepBeforeProjection(p) ==
    /\ run'[p] # run[p]
    /\ \/ run[p].pc \in {"fetch_rates", "validate", "loop", "commit"}
       \/ run[p].pc = "idle" /\ run'[p].pc # "idle"
       \/ run[p].pc = "idle" /\ run'[p].resp # None /\ Val(run'[p].resp).op = "refresh"

\* A refresh has returned 503 or 500.
RefreshFailed(r) == RefreshReturned(r) /\ Val(r.resp).status \in {503, 500}

\* C12 (states): a run whose country fetch failed has no result of the rate
\* source; a run is in its image block only with its commit in the tables and
\* no exception; a run that returned 503 or 500 left the summary file as it
\* found it.
C12_OrderInvariant ==
    \A p \in Threads :
      LET r == run[p]
      IN /\ r.ok_c = Some(FALSE) => r.ok_r = None /\ r.rates_data = None
         /\ r.pc \in {"validate", "loop", "commit", "project"}
              => r.ok_c = Some(TRUE) /\ r.ok_r = Some(TRUE)
         /\ r.pc = "project"
              => r.e = None /\ meta = {[key |-> MetaKey, value |-> <<"iso", r.now>>]}
         /\ RefreshFailed(r) => artifact = Val(r.pre).artifact

\* C12: the positions of a run follow fetch countries, fetch rates,
\* validate, write, commit, image block; the result of the country source is
\* set only by the step that starts the run and that of the rate source only
\* by the step after a successful country fetch, each once; the tables change
\* only at the commit; the summary file changes in no step of a refresh
\* before its image block.
C12_StepOrder ==
    /\ []C12_OrderInvariant
    /\ [][\A p \in Threads :
            /\ <<run[p].pc, run'[p].pc>> \in PcOrder
            /\ RefreshStepBeforeProjection(p) => artifact' = artifact
            /\ (run'[p].ok_c # run[p].ok_c /\ run'[p].ok_c # None) => run[p].pc = "idle"
            /\ (run'[p].ok_r # run[p].ok_r /\ run'[p].ok_r # None)
                 => /\ run[p].pc = "fetch_rates" /\ run'[p].pc # "fetch_rates"
                    /\ run[p].ok_c = Some(TRUE) /\ run[p].ok_r = None
            /\ (run'[p] # run[p] /\ run[p].pc \in {"fetch_rates", "validate", "loop"})
                 => countries' = countries /\ meta' = meta]_vars

\* C12 witness: a run whose commit was rejected has returned 500 and the
\* summary file an earlier run drew is still the one it started with.
C12_Witness ==
    \E p \in Threads :
      /\ RefreshFailed(run[p]) /\ run[p].e = Some("IntegrityError")
      /\ artifact # None /\ artifact = Val(run[p].pre).artifact

\* The value under "rates" of the run's rate payload is present and is no mapping.
MalformedRates(r) ==
    /\ r.rates_data # None /\ Val(r.rates_data).kind = "dict"
    /\ Val(r.rates_data).rates # None /\ Val(Val(r.rates_data).rates).kind # "map"

\* C13: a refresh whose rate payload has a rates field that is no mapping
\* writes nothing: tables countries and meta stay as the run found them, for
\* every country payload.
C13_MalformedRatesAborts ==
    \A p \in Threads :
      LET r == run[p]
      IN (MalformedRates(r) /\ r.pre # None) => Untouched(r)


\* The step is a run of get_image on thread p.
ImageStep(p) ==
    /\ run'[p] # run[p] /\ run[p].pc = "idle" /\ run'[p].pc = "idle"
    /\ run'[p].resp # None /\ Val(run'[p].resp).op = "get_image"

\* The drawing shows the tables: the row count, the Meta value, and ranked
\* lines that name rows of the catalog (none for an empty catalog).
DrawnFrom(drawing, rows, metaRows) ==
    /\ drawing.total = Cardinality(rows)
    /\ drawing.last_refresh =
         (IF metaRows = {} THEN None ELSE Some((CHOOSE m \in metaRows : TRUE).value))
    /\ \A k \in 1..Len(drawing.lines) : \E row \in rows : row.name = drawing.lines[k].name
    /\ (\A row \in rows : row.estimated_gdp = None) => drawing.lines = << >>

\* C14: a run of get_image changes neither table; when the summary file
\* exists it answers 200 with that file and leaves it as it is; when none
\* exists it either saves a drawing of the current tables (total 0 and no
\* ranked line for an empty catalog) and answers 200 with it, or answers 404
\* and saves nothing.
C14_GetImage ==
    [][\A p \in Threads :
         ImageStep(p) =>
           LET resp == Val(run'[p].resp)
           IN /\ countries' = countries /\ meta' = meta
              /\ resp.status \in {200, 404}
              /\ IF artifact # None
                 THEN artifact' = artifact /\ resp.status = 200 /\ resp.body = artifact
                 ELSE \/ /\ resp.status = 200 /\ artifact' # None /\ resp.body = artifact'
                         /\ DrawnFrom(Val(artifact'), countries, meta)
                      \/ resp.status = 404 /\ artifact' = None]_vars

\* C14 witness: get_image has answered 200 with the file it drew earlier of
\* the empty catalog (total 0, no timestamp, no ranked line), although the
\* catalog has rows by now.
C14_Witness ==
    \E p \in Threads :
      /\ run[p].pc = "idle"
      /\ run[p].resp = Some(Answer("get_image", None, 200, artifact))
      /\ artifact = Some(Drawing(0, None, << >>))
      /\ countries # {} /\ meta # {}

\* The path /countries/image.
ImagePath == <<Seg_countries, Seg_image>>

\* C17: the answer to a GET request for /countries/image comes from
\* get_image.
C17_ImageRouteReachesGetImage ==
    \A p \in Threads :
      LET r == run[p]
      IN (r.resp # None /\ Val(r.resp).op \notin {"refresh", "delete"}
            /\ Val(r.resp).req = Some(ImagePath))
           => Val(r.resp).op = "get_image"


\* The row of the catalog called name.
RowNamed(rows, name) == CHOOSE row \in rows : row.name = name

\* The ranked lines of the drawing are the rows of largest estimate among the
\* rows with a non-null one, as many as there are up to 5, each row once,
\* from the largest down, each with its estimate to two decimals; the total
\* counts every row.
RankingRule(drawing, rows) ==
    LET eligible == {row \in rows : row.estimated_gdp # None}
        lines == drawing.lines
        listed == {lines[k].name : k \in 1..Len(lines)}
    IN /\ drawing.total = Cardinality(rows)
       /\ Len(lines) = (IF Cardinality(eligible) < 5 THEN Cardinality(eligible) ELSE 5)
       /\ Cardinality(listed) = Len(lines)
       /\ \A k \in 1..Len(lines) :
            /\ \E row \in eligible : row.name = lines[k].name
            /\ lines[k].gdp = Format2f(Val(RowNamed(rows, lines[k].name).estimated_gdp))
       /\ \A j, k \in 1..Len(lines) :
            j < k => Val(RowNamed(rows, lines[j].name).estimated_gdp).num
                       * Val(RowNamed(rows, lines[k].name).estimated_gdp).den
                     >= Val(RowNamed(rows, lines[k].name).estimated_gdp).num
                       * Val(RowNamed(rows, lines[j].name).estimated_gdp).den
       /\ \A row \in eligible : \A k \in 1..Len(lines) :
            row.name \notin listed
              => Val(row.estimated_gdp).num * Val(RowNamed(rows, lines[k].name).estimated_gdp).den
                   <= Val(RowNamed(rows, lines[k].name).estimated_gdp).num * Val(row.estimated_gdp).den

\* C15: whenever the summary file is written, its ranked lines are the
\* min(5, k) rows of largest estimated_gdp among the k rows with a non-null
\* estimated_gdp, in descending order (a row with estimate 0 counts among the
\* k, a row with a null estimate is never listed), and its total is the
\* number of all rows.
C15_RankingRule ==
    [][artifact' # artifact => /\ artifact' # None
                               /\ RankingRule(Val(artifact'), countries)]_vars

\* C15 witness: a summary with five ranked lines has been drawn of a catalog
\* that has more than five rows with an estimate, a row with estimate 0 and a
\* row with a null estimate.
C15_Witness ==
    /\ artifact # None /\ Len(Val(artifact).lines) = 5
    /\ Val(artifact).total = Cardinality(countries)
    /\ Cardinality({row \in countries : row.estimated_gdp # None}) > 5
    /\ \E row \in countries : row.estimated_gdp = None
    /\ \E row \in countries : IsZero(row.estimated_gdp)


\* C16: when the loop of a run has ended, no two rows it is about to insert
\* are the same country (a later record of a country updates what the
\* earlier one produced); and when a run has committed a payload with two
\* named records of the same country, the catalog holds one row for that
\* country, with the later record's values.
C16_InRunDuplicateUpdates ==
    \A p \in Threads :
      LET r == run[p]
      IN /\ r.pc = "commit" =>
              \A j, k \in 1..Len(r.session.new) :
                 j < k => ~SameCountry(r.session.new[j].name, r.session.new[k].name)
         /\ Committed(r) =>
              \A j, k \in NamedAt(Val(r.countries_data)) :
                 LET a == Val(r.countries_data)[j]
                     b == Val(r.countries_data)[k]
                 IN (j < k /\ SameCountry(Val(a.name), Val(b.name)))
                      => /\ Cardinality(RowsOf(Val(b.name))) = 1
                         /\ \A row \in RowsOf(Val(b.name)) :
                              /\ row.capital = b.capital /\ row.region = b.region
                              /\ row.population = PopulationOf(b)

\* The item is a JSON object whose name is missing, null or empty.
Nameless(c) == c.kind = "dict" /\ (c.name = None \/ c.name = Some(<< >>))

\* The step is the pass of thread p's loop over a nameless record, and no
\* engine failure ends the run in it.
SkipStep(p) ==
    /\ run[p].pc = "loop" /\ run'[p] # run[p]
    /\ run[p].i < Len(Val(run[p].countries_data))
    /\ Nameless(Val(run[p].countries_data)[run[p].i + 1])
    /\ run'[p].e # Some("OperationalError")

\* C18 (states): when a run has committed, every named record of its payload
\* has a row stamped by the run, the run has counted and written no more
\* rows than it has named records, and no row has an empty name.
C18_NamedRecordsCommitted ==
    /\ \A row \in countries : row.name # << >>
    /\ \A p \in Threads :
         LET r == run[p]
         IN Committed(r) =>
              /\ \A k \in NamedAt(Val(r.countries_data)) :
                   Stamped(r, Val(Val(r.countries_data)[k].name)) # {}
              /\ Cardinality(Touched(r)) <= Cardinality(NamedAt(Val(r.countries_data)))
              /\ r.processed_count = Cardinality(NamedAt(Val(r.countries_data)))

\* C18: the pass of the loop over a record without a name or with an empty
\* name only moves on to the next record: nothing is added to the session,
\* nothing is counted, no exception is raised, the tables stay; and the named
\* records of the payload are upserted and committed by the run.
C18_PerRecordSkip ==
    /\ []C18_NamedRecordsCommitted
    /\ [][\A p \in Threads :
            SkipStep(p) =>
              /\ run'[p] = [run[p] EXCEPT !.i = run[p].i + 1]
              /\ countries' = countries /\ meta' = meta]_vars

\* C18 witness: a run has committed a payload of a record without a name
\* followed by a named record, and the named record's row is in the catalog.
C18_Witness ==
    \E p \in Threads :
      /\ Committed(run[p])
      /\ Len(Val(run[p].countries_data)) = 2
      /\ Nameless(Val(run[p].countries_data)[1])
      /\ HasName(Val(run[p].countries_data)[2])
      /\ Stamped(run[p], Val(Val(run[p].countries_data)[2].name)) # {}
      /\ run[p].processed_count = 1


\* The step is a run of delete_country on thread p.
DeleteStep(p) ==
    /\ run'[p] # run[p] /\ run[p].pc = "idle" /\ run'[p].pc = "idle"
    /\ run'[p].resp # None /\ Val(run'[p].resp).op = "delete"

\* C20: a run of delete_country(name) leaves the Meta row and the summary
\* file alone; if some row's name equals name ignoring case it answers 200
\* and removes exactly one such row and no other; if none does it answers 404
\* and the catalog is unchanged.
C20_DeleteCountry ==
    [][\A p \in Threads :
         DeleteStep(p) =>
           LET resp == Val(run'[p].resp)
               matching == {row \in countries : SameCountry(row.name, resp.name)}
           IN /\ meta' = meta /\ artifact' = artifact
              /\ IF matching # {}
                 THEN /\ resp.status = 200
                      /\ \E row \in matching : countries' = countries \ {row}
                 ELSE resp.status = 404 /\ countries' = countries]_vars


\* The step is the successful commit of thread p's run.
CommitStep(p) == run[p].pc = "commit" /\ run'[p].pc = "project"

\* The row holds what the record gives a row.
HoldsRecord(row, c) ==
    /\ row.capital = c.capital /\ row.region = c.region
    /\ row.population = PopulationOf(c) /\ row.flag_url = c.flag

\* C19 (states): no two rows have the same name, and table meta has at most
\* one row for the key.
C19_NoDuplicateRows ==
    /\ \A a, b \in countries : a.name = b.name => a = b
    /\ Cardinality({m \in meta : m.key = MetaKey}) <= 1

\* C19: with two refreshes overlapping, the tables change only in the
\* commit step of a run, and that step leaves the Meta row with the run's
\* timestamp and, for each country its payload names, a row with the run's
\* timestamp and the values of the run's record (all of the run's upserts
\* and its Meta write, or, in every other step, none); no state has two
\* rows of one name or two Meta rows.
C19_ConcurrentRefreshes ==
    /\ []C19_NoDuplicateRows
    /\ [][\A p \in Threads :
            /\ CommitStep(p) =>
                 /\ meta' = {[key |-> MetaKey, value |-> <<"iso", run[p].now>>]}
                 /\ \A k \in 1..Len(Val(run[p].countries_data)) :
                      FinalAt(Val(run[p].countries_data), k) =>
                        \E row \in countries' :
                          /\ SameCountry(row.name, Val(Val(run[p].countries_data)[k].name))
                          /\ row.last_refreshed_at = run[p].now
                          /\ HoldsRecord(row, Val(run[p].countries_data)[k])
            /\ (run'[p] # run[p] /\ ~CommitStep(p))
                 => countries' = countries /\ meta' = meta]_vars

====
